---- MODULE Spec2Model ----
(***************************************************************************)
(* Model of BlueprintProfiler/Scripts/localize.py: the catalog parser      *)
(* parse_po_file, the rewriter convert_loctext_to_bp with its callback     *)
(* replace_match, and the linear pipeline of main with its file handles.   *)
(*                                                                         *)
(* Text is a sequence of one-character strings, so the two regular         *)
(* expressions of the script are matched character by character.           *)
(***************************************************************************)
EXTENDS Integers, Sequences, FiniteSets

VARIABLES
    zhRecs,      \* the records the Chinese catalog file was written from
    enRecs,      \* the records the English catalog file was written from
    segs,        \* the pieces the target file was written from
    zhFile,      \* stored text of zh-Hans/BlueprintProfiler.po
    enFile,      \* stored text of en/BlueprintProfiler.po
    srcFile,     \* stored text of SBlueprintProfilerWidget.cpp (while torn: see
                 \* TargetMayHold)
    pc,          \* position of the run inside main and its callees
    open,        \* the file handles open right now
    content,     \* local `content` of the function being executed
    chinese,     \* main's chinese_translations
    english,     \* main's english_translations
    newContent,  \* convert_loctext_to_bp's new_content
    stdout,      \* the lines printed by the current run
    failedAt,    \* the step whose I/O raised in this run, "" if none
    srcAtStart,  \* stored text of the target when the current run started
    openedW,     \* the current run has opened the target for writing
    writenl,     \* newline of the file object open for writing, <<>> if none
    torn,        \* a write of the target fell short or failed part-way
    runs,        \* number of runs of the script started so far
    reads,       \* per finished conversion: the content read from the target
    writes       \* per finished conversion: the content written to the target

vars == <<zhRecs, enRecs, segs, zhFile, enFile, srcFile, pc, open, content,
          chinese, english, newContent, stdout, failedAt, srcAtStart,
          openedW, writenl, torn, runs, reads, writes>>

----------------------------------------------------------------------------
(* Bounds of the model. *)

MaxSegs == 2
MaxRecs == 2
MaxRuns == 2

----------------------------------------------------------------------------
(* Characters and literal pieces of text. *)

Q == "\""
BS == "\\"
LF == "\n"
CR == "\r"
\* The control characters U+000B and U+001C to U+001F, written raw.
VT == ""
FS == ""
GS == ""
RS == ""
US == ""

\* The spaces U+0085, U+00A0 and U+1680, written raw.
NEL == ""
NBSP == " "
OGHAM == " "

\* Python's \s on str: the characters c with c.isspace().  All of them up
\* to U+1680 are here.  The lexer rejects the remaining ones in a module
\* string (U+2000 to U+200A, U+2028, U+2029, U+202F, U+205F, U+3000), so no
\* text of the model can hold them.
Whitespace == {" ", "\t", "\n", VT, "\f", "\r", FS, GS, RS, US, NEL, NBSP, OGHAM}

MsgidOpen == <<"m", "s", "g", "i", "d", " ", Q>>
MsgstrOpen == <<"m", "s", "g", "s", "t", "r", " ", Q>>
LoctextName == <<"L", "O", "C", "T", "E", "X", "T", "(">>
LoctextOpen == LoctextName \o <<Q>>
BpLoctextOpen == <<"B", "P", "_">> \o LoctextOpen

RECURSIVE Concat(_)
Concat(ss) == IF ss = <<>> THEN <<>> ELSE Head(ss) \o Concat(Tail(ss))

\* s holds p at position i.
HasAt(s, i, p) ==
    /\ i >= 1
    /\ i + Len(p) - 1 <= Len(s)
    /\ \A k \in 1..Len(p) : s[i + k - 1] = p[k]

\* [^"]* from position i: the index of the first quote at or after i, or
\* Len(s) + 1 when there is none.
NotQuoteEnd(s, i) ==
    CHOOSE j \in i..(Len(s) + 1) :
        /\ (j = Len(s) + 1 \/ s[j] = Q)
        /\ \A k \in i..(j - 1) : s[k] # Q

\* \s* from position i: the index of the first non-whitespace at or after i.
SpaceEnd(s, i) ==
    CHOOSE j \in i..(Len(s) + 1) :
        /\ (j = Len(s) + 1 \/ s[j] \notin Whitespace)
        /\ \A k \in i..(j - 1) : s[k] \in Whitespace

NoMatch == [ok |-> FALSE, g1 |-> <<>>, g2 |-> <<>>, start |-> 0, end |-> 0]

----------------------------------------------------------------------------
(* Text-mode file access: open(..., 'r' / 'w', encoding='utf-8') with the  *)
(* default newline=None.                                                   *)

\* Reading translates "\r\n" and a lone "\r" to "\n".
\* The position of the first carriage return at or after i, 0 if none.
NextCR(s, i) ==
    LET crs == {j \in i..Len(s) : s[j] = CR}
    IN  IF crs = {} THEN 0 ELSE CHOOSE j \in crs : \A k \in crs : j <= k

RECURSIVE Universal(_, _)
Universal(s, i) ==
    LET j == NextCR(s, i)
    IN  IF j = 0 THEN SubSeq(s, i, Len(s))
        ELSE SubSeq(s, i, j - 1) \o <<LF>>
             \o Universal(s, IF HasAt(s, j + 1, <<LF>>) THEN j + 2 ELSE j + 1)

ReadText(stored) == Universal(stored, 1)

\* os.linesep of the platforms the script runs on.
LineSeps == {<<LF>>, <<CR, LF>>}

\* Writing translates every "\n" to the newline of the file object.
RECURSIVE WriteText(_, _)
WriteText(s, sep) ==
    IF s = <<>> THEN <<>>
    ELSE IF Len(s) = 1 THEN (IF s[1] = LF THEN sep ELSE s)
    ELSE LET h == Len(s) \div 2
         IN  WriteText(SubSeq(s, 1, h), sep) \o WriteText(SubSeq(s, h + 1, Len(s)), sep)

\* Bytes of encoded text the text layer of a file object collects before it
\* hands them on to be written (the chunk size of io.TextIOWrapper).
ChunkSize == 8192

\* The characters U+0020 to U+005F in the order of their codes.
PrintableLow ==
    <<" ", "!", "\"", "#", "$", "%", "&", "'", "(", ")", "*", "+", ",", "-", ".", "/",
      "0", "1", "2", "3", "4", "5", "6", "7", "8", "9", ":", ";", "<", "=", ">", "?",
      "@", "A", "B", "C", "D", "E", "F", "G", "H", "I", "J", "K", "L", "M", "N", "O",
      "P", "Q", "R", "S", "T", "U", "V", "W", "X", "Y", "Z", "[", "\\", "]", "^", "_">>

\* The characters U+0061 to U+007E in the order of their codes (U+0060
\* cannot stand in a string of a module and is in no text of the model).
PrintableHigh ==
    <<"a", "b", "c", "d", "e", "f", "g", "h", "i", "j", "k", "l", "m", "n", "o",
      "p", "q", "r", "s", "t", "u", "v", "w", "x", "y", "z", "{", "|", "}", "~">>

\* The code of each printable character.
PrintableCode ==
    [c \in {PrintableLow[i] : i \in 1..Len(PrintableLow)}
            \cup {PrintableHigh[i] : i \in 1..Len(PrintableHigh)} |->
        IF \E i \in 1..Len(PrintableLow) : PrintableLow[i] = c
        THEN 31 + CHOOSE i \in 1..Len(PrintableLow) : PrintableLow[i] = c
        ELSE 96 + CHOOSE i \in 1..Len(PrintableHigh) : PrintableHigh[i] = c]

\* encoding='utf-8': the bytes of one character of the model's texts.
Utf8Char(c) ==
    CASE c = "\t" -> <<9>> [] c = LF -> <<10>> [] c = VT -> <<11>>
      [] c = "\f" -> <<12>> [] c = CR -> <<13>>
      [] c = FS -> <<28>> [] c = GS -> <<29>> [] c = RS -> <<30>> [] c = US -> <<31>>
      [] c = NEL -> <<194, 133>> [] c = NBSP -> <<194, 160>>
      [] c = OGHAM -> <<225, 154, 128>>
      [] OTHER -> <<PrintableCode[c]>>

\* encoding='utf-8': the bytes of a text.
RECURSIVE Utf8(_)
Utf8(s) ==
    IF s = <<>> THEN <<>>
    ELSE IF Len(s) = 1 THEN Utf8Char(s[1])
    ELSE LET h == Len(s) \div 2
         IN  Utf8(SubSeq(s, 1, h)) \o Utf8(SubSeq(s, h + 1, Len(s)))

Utf8Len(s) == Len(Utf8(s))

\* f.write(data) writes the text through when its encoding fills a chunk; a
\* shorter text waits in the file object until the flush.
WrittenThrough(data) == Utf8Len(data) >= ChunkSize

----------------------------------------------------------------------------
(* Python dict: insertion-ordered key/value entries, keys unique.          *)

DictHas(d, k) == \E i \in 1..Len(d) : d[i].key = k

DictIndex(d, k) == CHOOSE i \in 1..Len(d) : d[i].key = k

\* d.get(k, default)
DictGet(d, k, default) == IF DictHas(d, k) THEN d[DictIndex(d, k)].val ELSE default

\* d[k] = v
DictSet(d, k, v) ==
    IF DictHas(d, k)
    THEN [d EXCEPT ![DictIndex(d, k)].val = v]
    ELSE Append(d, [key |-> k, val |-> v])

----------------------------------------------------------------------------
(* parse_po_file *)

\* The pattern  msgid "([^"]*)"\s+msgstr "([^"]*)"  tried at position i.
MatchPoAt(s, i) ==
    LET k1 == i + Len(MsgidOpen)
        k2 == NotQuoteEnd(s, k1)
        w == SpaceEnd(s, k2 + 1)
        v1 == w + Len(MsgstrOpen)
        v2 == NotQuoteEnd(s, v1)
    IN  IF /\ HasAt(s, i, MsgidOpen)
           /\ k2 <= Len(s)
           /\ w > k2 + 1
           /\ HasAt(s, w, MsgstrOpen)
           /\ v2 <= Len(s)
        THEN [ok |-> TRUE, g1 |-> SubSeq(s, k1, k2 - 1),
              g2 |-> SubSeq(s, v1, v2 - 1), start |-> i, end |-> v2]
        ELSE NoMatch

\* The leftmost position at or after i where the pattern matches, 0 if none.
SearchPo(s, i) ==
    LET hits == {j \in i..Len(s) : HasAt(s, j, MsgidOpen) /\ MatchPoAt(s, j).ok}
    IN  IF hits = {} THEN 0 ELSE CHOOSE j \in hits : \A k \in hits : j <= k

\* re.findall(pattern, content): the non-overlapping matches, left to right,
\* from position i on.
RECURSIVE FindAllPo(_, _)
FindAllPo(s, i) ==
    LET j == SearchPo(s, i)
    IN  IF j = 0 THEN <<>>
        ELSE LET m == MatchPoAt(s, j) IN <<m>> \o FindAllPo(s, m.end + 1)

StoreEntryKeepEmpty(translations, msgid, msgstr) ==
    DictSet(translations, msgid, msgstr)

StoreEntryFirstWins(translations, msgid, msgstr) ==
    IF msgid # <<>> /\ ~DictHas(translations, msgid)
    THEN DictSet(translations, msgid, msgstr)
    ELSE translations

\* if msgid: translations[msgid] = msgstr
StoreEntry(translations, msgid, msgstr) ==
    IF msgid # <<>> THEN DictSet(translations, msgid, msgstr) ELSE translations

RECURSIVE StoreAll(_, _)
StoreAll(translations, matches) ==
    IF matches = <<>> THEN translations
    ELSE StoreAll(StoreEntry(translations, Head(matches).g1, Head(matches).g2),
                  Tail(matches))

\* The part of parse_po_file after the file has been read.
ParsePoContent(text) == StoreAll(<<>>, FindAllPo(text, 1))

----------------------------------------------------------------------------
(* convert_loctext_to_bp *)

\* The pattern  LOCTEXT\("([^"]+)",\s*"([^"]+)"\)  tried at position i.
MatchLoctextAt(s, i) ==
    LET k1 == i + Len(LoctextOpen)
        k2 == NotQuoteEnd(s, k1)
        w == SpaceEnd(s, k2 + 2)
        d1 == w + 1
        d2 == NotQuoteEnd(s, d1)
    IN  IF /\ HasAt(s, i, LoctextOpen)
           /\ k2 > k1
           /\ k2 <= Len(s)
           /\ HasAt(s, k2 + 1, <<",">>)
           /\ HasAt(s, w, <<Q>>)
           /\ d2 > d1
           /\ d2 <= Len(s)
           /\ HasAt(s, d2 + 1, <<")">>)
        THEN [ok |-> TRUE, g1 |-> SubSeq(s, k1, k2 - 1),
              g2 |-> SubSeq(s, d1, d2 - 1), start |-> i, end |-> d2 + 1]
        ELSE NoMatch

\* The leftmost position at or after i where the pattern matches, 0 if none.
SearchLoctext(s, i) ==
    LET hits == {j \in i..Len(s) : HasAt(s, j, LoctextOpen) /\ MatchLoctextAt(s, j).ok}
    IN  IF hits = {} THEN 0 ELSE CHOOSE j \in hits : \A k \in hits : j <= k

\* The matches re.sub visits: non-overlapping, left to right, from
\* position i on.
RECURSIVE FindAllLoctext(_, _)
FindAllLoctext(s, i) ==
    LET j == SearchLoctext(s, i)
    IN  IF j = 0 THEN <<>>
        ELSE LET m == MatchLoctextAt(s, j) IN <<m>> \o FindAllLoctext(s, m.end + 1)

\* str.replace('"', '\\"')
RECURSIVE EscapeQuotes(_)
EscapeQuotes(s) ==
    IF s = <<>> THEN <<>>
    ELSE (IF Head(s) = Q THEN <<BS, Q>> ELSE <<Head(s)>>) \o EscapeQuotes(Tail(s))

\* f'BP_LOCTEXT("{key}", "{chinese}", "{english}")'
FormatCall(name, key, zhText, enText) ==
    name \o key \o <<Q, ",", " ", Q>> \o zhText \o <<Q, ",", " ", Q>>
         \o enText \o <<Q, ")">>

ReplaceMatchSwapped(key, default_text, chinese_translations, english_translations) ==
    FormatCall(BpLoctextOpen, key,
               EscapeQuotes(DictGet(english_translations, key, default_text)),
               EscapeQuotes(DictGet(chinese_translations, key, default_text)))

ReplaceMatchKeepsName(key, default_text, chinese_translations, english_translations) ==
    LoctextOpen \o key \o <<Q, ",", " ", Q>>
        \o EscapeQuotes(DictGet(chinese_translations, key, default_text))
        \o <<Q, ")">>

ReplaceMatch(key, default_text, chinese_translations, english_translations) ==
    FormatCall(BpLoctextOpen, key,
               EscapeQuotes(DictGet(chinese_translations, key, default_text)),
               EscapeQuotes(DictGet(english_translations, key, default_text)))

\* re.sub(pattern, replace_match, content) from position i on: the text up
\* to the next match is copied, the match is replaced.
RECURSIVE ReSub(_, _, _, _)
ReSub(s, i, zh, en) ==
    LET j == SearchLoctext(s, i)
    IN  IF j = 0 THEN SubSeq(s, i, Len(s))
        ELSE LET m == MatchLoctextAt(s, j)
             IN  SubSeq(s, i, j - 1) \o ReplaceMatch(m.g1, m.g2, zh, en)
                 \o ReSub(s, m.end + 1, zh, en)

\* As if re.sub were called with count=1.
ConvertContentFirstOnly(text, zh, en) ==
    LET j == SearchLoctext(text, 1)
    IN  IF j = 0 THEN text
        ELSE LET m == MatchLoctextAt(text, j)
             IN  SubSeq(text, 1, j - 1) \o ReplaceMatch(m.g1, m.g2, zh, en)
                 \o SubSeq(text, m.end + 1, Len(text))

\* new_content = re.sub(pattern, replace_match, content)
ConvertContent(text, zh, en) == ReSub(text, 1, zh, en)

----------------------------------------------------------------------------
(* The inputs of a run: the three files on disk.                           *)

PairRec(id, str, sep) == [kind |-> "pair", id |-> id, str |-> str, sep |-> sep]
OrphanIdRec(id) == [kind |-> "orphan_id", id |-> id, str |-> <<>>, sep |-> <<>>]
OrphanStrRec(str) == [kind |-> "orphan_str", id |-> <<>>, str |-> str, sep |-> <<>>]

\* One catalog record as it stands in a .po file.
RenderRec(r) ==
    CASE r.kind = "pair" ->
            MsgidOpen \o r.id \o <<Q>> \o r.sep \o MsgstrOpen \o r.str \o <<Q, LF>>
      [] r.kind = "orphan_id" ->
            MsgidOpen \o r.id \o <<Q, LF>>
      [] r.kind = "orphan_str" ->
            <<"#", LF>> \o MsgstrOpen \o r.str \o <<Q, LF>>

RenderPo(recs) == Concat([i \in 1..Len(recs) |-> RenderRec(recs[i])])

CallSeg(key, ws, text) == [kind |-> "call", key |-> key, ws |-> ws, text |-> text]
TextSeg(text) == [kind |-> "text", key |-> <<>>, ws |-> <<>>, text |-> text]

\* One piece of the target file: a LOCTEXT call or other text.
RenderSeg(g) ==
    IF g.kind = "call"
    THEN LoctextOpen \o g.key \o <<Q, ",">> \o g.ws \o <<Q>> \o g.text \o <<Q, ")">>
    ELSE g.text

RenderSegs(gs) == Concat([i \in 1..Len(gs) |-> RenderSeg(gs[i])])

SeqsUpTo(S, n) == UNION {[1..k -> S] : k \in 0..n}

\* Catalog records of the rich catalogs: keys a, b and the empty key, a
\* repeated key, a same-line separator (U+00A0, vertical tab), a CRLF
\* separator, and partial records.
PoRecSet ==
    {PairRec(id, str, <<LF>>) : id \in {<<>>, <<"a">>, <<"b">>}, str \in {<<"x">>, <<"y">>}}
    \cup {PairRec(<<"a">>, <<>>, <<NBSP, VT>>), PairRec(<<"b">>, <<"z">>, <<CR, LF, LF>>),
          OrphanIdRec(<<"a">>), OrphanStrRec(<<"z">>)}

\* Catalogs of the rewriting runs: none, a plain entry for key K, and an
\* entry whose msgstr holds an escaped quote:  msgstr "a\"b"
ZhChoices ==
    {<<>>, <<PairRec(<<"K">>, <<"Z">>, <<LF>>)>>,
     <<PairRec(<<"K">>, <<"a", BS, Q, "b">>, <<LF>>)>>}

EnChoices == {<<>>, <<PairRec(<<"K">>, <<"E">>, <<LF>>)>>}

\* Pieces of the target file.
SegSet ==
    {CallSeg(<<"K">>, <<>>, <<"D">>),
     CallSeg(<<"M">>, <<FS, " ", OGHAM>>, <<"F">>),
     CallSeg(<<"K">>, <<>>, LoctextName),
     CallSeg(<<"N">>, <<>>, <<"a", BS, Q, "b">>),
     CallSeg(<<"K">>, <<>>, <<>>),
     TextSeg(<<"B", "P", "_">>),
     TextSeg(<<Q, ",", Q, "d", Q, ")">>),
     TextSeg(<<"x", CR, LF>>)}

----------------------------------------------------------------------------
(* main and its callees, one action per step that touches a file.          *)

Catalogs == {"zh", "en"}

OpenPc(f) == CASE f = "zh" -> "open_zh" [] f = "en" -> "open_en" [] f = "src" -> "open_src"
ReadPc(f) == CASE f = "zh" -> "read_zh" [] f = "en" -> "read_en" [] f = "src" -> "read_src"
ClosePc(f) == CASE f = "zh" -> "close_zh" [] f = "en" -> "close_en" [] f = "src" -> "close_src"

StoredText(f) == CASE f = "zh" -> zhFile [] f = "en" -> enFile [] f = "src" -> srcFile

\* The print statements of main and convert_loctext_to_bp, by position.
PrintPoints == {"main", "found_zh", "parsing_en", "found_en", "converting",
                "converted", "print_done"}

\* The steps at which the platform can raise an I/O error: every open and
\* read, the write, the exit of the writing `with` block, and every print
\* (standard output written through at each print).
FailPoints == {"open_zh", "read_zh", "open_en", "read_en", "open_src",
               "read_src", "open_dst", "write_dst", "close_dst"}
              \cup PrintPoints

\* The handle a step holds inside its `with` block, if any.
HeldAt(p) ==
    CASE p = "read_zh" -> {"zh"} [] p = "read_en" -> {"en"}
      [] p = "read_src" -> {"src"} [] p \in {"write_dst", "close_dst"} -> {"dst"}
      [] OTHER -> {}

Line(msg, n) == [msg |-> msg, n |-> n]

Printed(msg) == \E i \in 1..Len(stdout) : stdout[i].msg = msg

\* The line the print statement at position p writes.
PrintedLine(p) ==
    CASE p = "main" -> Line("Parsing Chinese translations...", 0)
      [] p = "found_zh" -> Line("Found Chinese translations", Len(chinese))
      [] p = "parsing_en" -> Line("Parsing English translations...", 0)
      [] p = "found_en" -> Line("Found English translations", Len(english))
      [] p = "converting" -> Line("Converting source file...", 0)
      [] p = "converted" -> Line("Converted", 0)
      [] p = "print_done" -> Line("Done!", 0)

LeakHandle(handles, f) == handles

\* Leaving a `with open(...) as f:` block releases the handle.
CloseHandle(handles, f) == handles \ {f}

\* The statement order of main and its callees.
StepAfter(p) ==
    CASE p = "main" -> "open_zh"
      [] p = "open_zh" -> "read_zh" [] p = "read_zh" -> "close_zh"
      [] p = "close_zh" -> "found_zh" [] p = "found_zh" -> "parsing_en"
      [] p = "parsing_en" -> "open_en"
      [] p = "open_en" -> "read_en" [] p = "read_en" -> "close_en"
      [] p = "close_en" -> "found_en" [] p = "found_en" -> "converting"
      [] p = "converting" -> "open_src"
      [] p = "open_src" -> "read_src" [] p = "read_src" -> "close_src"
      [] p = "close_src" -> "open_dst"
      [] p = "open_dst" -> "write_dst" [] p = "write_dst" -> "close_dst"
      [] p = "close_dst" -> "converted" [] p = "converted" -> "print_done"
      [] p = "print_done" -> "done"

AfterFailureSwallowed(p) == StepAfter(p)

\* Nothing in the script catches an exception: it leaves main.
AfterFailure(p) == "aborted"

\* One print statement.
PrintLine ==
    /\ pc \in PrintPoints
    /\ stdout' = Append(stdout, PrintedLine(pc))
    /\ pc' = StepAfter(pc)
    /\ UNCHANGED <<zhRecs, enRecs, segs, zhFile, enFile, srcFile, open, content,
                   chinese, english, newContent, failedAt, srcAtStart, openedW,
                   writenl, torn, runs, reads, writes>>

OpenRead(f) ==
    /\ pc = OpenPc(f)
    /\ open' = open \cup {f}
    /\ pc' = ReadPc(f)
    /\ UNCHANGED <<zhRecs, enRecs, segs, zhFile, enFile, srcFile, content,
                   chinese, english, newContent, stdout, failedAt, srcAtStart,
                   openedW, writenl, torn, runs, reads, writes>>

ReadFile(f) ==
    /\ pc = ReadPc(f)
    /\ content' = ReadText(StoredText(f))
    /\ pc' = ClosePc(f)
    /\ UNCHANGED <<zhRecs, enRecs, segs, zhFile, enFile, srcFile, open,
                   chinese, english, newContent, stdout, failedAt, srcAtStart,
                   openedW, writenl, torn, runs, reads, writes>>

CloseParseZh ==
    /\ pc = "close_zh"
    /\ open' = CloseHandle(open, "zh")
    /\ chinese' = ParsePoContent(content)
    /\ pc' = "found_zh"
    /\ UNCHANGED <<zhRecs, enRecs, segs, zhFile, enFile, srcFile, content,
                   english, newContent, stdout, failedAt, srcAtStart, openedW,
                   writenl, torn, runs, reads, writes>>

CloseParseEn ==
    /\ pc = "close_en"
    /\ open' = CloseHandle(open, "en")
    /\ english' = ParsePoContent(content)
    /\ pc' = "found_en"
    /\ UNCHANGED <<zhRecs, enRecs, segs, zhFile, enFile, srcFile, content,
                   chinese, newContent, stdout, failedAt, srcAtStart, openedW,
                   writenl, torn, runs, reads, writes>>

CloseConvert ==
    /\ pc = "close_src"
    /\ open' = CloseHandle(open, "src")
    /\ newContent' = ConvertContent(content, chinese, english)
    /\ pc' = "open_dst"
    /\ UNCHANGED <<zhRecs, enRecs, segs, zhFile, enFile, srcFile, content,
                   chinese, english, stdout, failedAt, srcAtStart, openedW,
                   writenl, torn, runs, reads, writes>>

\* open(filepath, 'w') truncates the file; the file object takes the
\* platform's os.linesep as its newline.
OpenWrite ==
    /\ pc = "open_dst"
    /\ open' = open \cup {"dst"}
    /\ srcFile' = <<>>
    /\ openedW' = TRUE
    /\ writenl' \in LineSeps
    /\ pc' = "write_dst"
    /\ UNCHANGED <<zhRecs, enRecs, segs, zhFile, enFile, content, chinese,
                   english, newContent, stdout, failedAt, srcAtStart, torn,
                   runs, reads, writes>>

\* f.write(new_content): a text shorter than a chunk stays in the file
\* object.  A longer one is written to the file; when the platform takes
\* only a part of it, the write is short: the file holds a part of the
\* bytes and the tail stays in the file object (how long a tail can stay
\* depends on the block size of the platform).
WriteFile ==
    /\ pc = "write_dst"
    /\ IF WrittenThrough(WriteText(newContent, writenl))
       THEN \/ srcFile' = WriteText(newContent, writenl) /\ torn' = FALSE
            \/ srcFile' = srcFile /\ torn' = TRUE
       ELSE srcFile' = srcFile /\ torn' = FALSE
    /\ pc' = "close_dst"
    /\ UNCHANGED <<zhRecs, enRecs, segs, zhFile, enFile, open, content,
                   chinese, english, newContent, stdout, failedAt, srcAtStart,
                   openedW, writenl, runs, reads, writes>>

\* Leaving the `with` block flushes what the file object still holds and
\* closes the file.
CloseWrite ==
    /\ pc = "close_dst"
    /\ open' = CloseHandle(open, "dst")
    /\ srcFile' = WriteText(newContent, writenl)
    /\ torn' = FALSE
    /\ writenl' = <<>>
    /\ reads' = Append(reads, content)
    /\ writes' = Append(writes, newContent)
    /\ pc' = "converted"
    /\ UNCHANGED <<zhRecs, enRecs, segs, zhFile, enFile, content,
                   chinese, english, newContent, stdout, failedAt, srcAtStart,
                   openedW, runs>>

\* The step at position p can raise now: f.write touches the file, and so
\* can fail, only for a text that is written through.
CanFail(p) ==
    /\ p \in FailPoints
    /\ p = "write_dst" => WrittenThrough(WriteText(newContent, writenl))

\* A failure at position p leaves the target torn: a failed f.write does,
\* and so does a failed flush when the file object still held bytes (a
\* buffered text, or the tail of a short write).  A failed close after
\* everything was written, and any other failure, leave the file as it is.
TornAfterFailure(p) ==
    \/ p = "write_dst"
    \/ p = "close_dst" /\ (torn \/ ~WrittenThrough(WriteText(newContent, writenl)))

\* An I/O error: the `with` block, if entered, releases its handle and the
\* exception propagates out of main.
Fail ==
    /\ CanFail(pc)
    /\ failedAt' = pc
    /\ open' = IF HeldAt(pc) = {} THEN open
               ELSE CloseHandle(open, CHOOSE h \in HeldAt(pc) : TRUE)
    /\ torn' = TornAfterFailure(pc)
    /\ writenl' = IF TornAfterFailure(pc) THEN writenl ELSE <<>>
    /\ pc' = AfterFailure(pc)
    /\ UNCHANGED <<zhRecs, enRecs, segs, zhFile, enFile, srcFile, content,
                   chinese, english, newContent, stdout, srcAtStart, openedW,
                   runs, reads, writes>>

\* bytes is the start of whole.
IsPrefix(bytes, whole) ==
    /\ Len(bytes) <= Len(whole)
    /\ \A i \in 1..Len(bytes) : bytes[i] = whole[i]

\* The bytes the target file can hold in the current state.  An untorn
\* file holds the encoding of srcFile.  A torn file holds a start of the
\* encoding of the text being written, cut at any byte, also inside a
\* character, and srcFile is not its content; it holds less than the whole
\* text while bytes wait in the file object and after a failed f.write.
TargetMayHold(bytes) ==
    IF torn
    THEN LET whole == Utf8(WriteText(newContent, writenl))
         IN  /\ IsPrefix(bytes, whole)
             /\ (pc = "close_dst" \/ failedAt = "write_dst") => Len(bytes) < Len(whole)
    ELSE bytes = Utf8(srcFile)

\* The script is started again on the files the finished run left.
Rerun ==
    /\ pc = "done"
    /\ runs < MaxRuns
    /\ runs' = runs + 1
    /\ pc' = "main"
    /\ content' = <<>>
    /\ chinese' = <<>>
    /\ english' = <<>>
    /\ newContent' = <<>>
    /\ stdout' = <<>>
    /\ failedAt' = ""
    /\ srcAtStart' = srcFile
    /\ openedW' = FALSE
    /\ UNCHANGED <<zhRecs, enRecs, segs, zhFile, enFile, srcFile, open, writenl,
                   torn, reads, writes>>

InitRun ==
    /\ zhFile = RenderPo(zhRecs)
    /\ enFile = RenderPo(enRecs)
    /\ srcFile = RenderSegs(segs)
    /\ pc = "main"
    /\ open = {}
    /\ content = <<>>
    /\ chinese = <<>>
    /\ english = <<>>
    /\ newContent = <<>>
    /\ stdout = <<>>
    /\ failedAt = ""
    /\ srcAtStart = srcFile
    /\ openedW = FALSE
    /\ writenl = <<>>
    /\ torn = FALSE
    /\ runs = 1
    /\ reads = <<>>
    /\ writes = <<>>

\* Text without a call, n characters long.
Filler(n) == [i \in 1..n |-> "x"]

\* Targets around the chunk size of the writing file object: one byte short
\* of it, exactly it, exactly it with a two-byte character, and beyond it
\* with a call to rewrite.
LargeTargets ==
    {<<TextSeg(Filler(ChunkSize - 1))>>,
     <<TextSeg(Filler(ChunkSize))>>,
     <<TextSeg(<<NBSP>>), TextSeg(Filler(ChunkSize - 2))>>,
     <<CallSeg(<<"K">>, <<>>, <<"D">>), TextSeg(Filler(ChunkSize))>>}

\* Runs over many targets and a few catalogs.
Init ==
    /\ zhRecs \in ZhChoices
    /\ enRecs \in EnChoices
    /\ segs \in SeqsUpTo(SegSet, MaxSegs) \cup LargeTargets
    /\ InitRun

\* Runs over many Chinese catalogs and one target.
InitParse ==
    /\ zhRecs \in SeqsUpTo(PoRecSet, MaxRecs)
    /\ enRecs = <<>>
    /\ segs = <<CallSeg(<<"a">>, <<>>, <<"D">>)>>
    /\ InitRun

Next ==
    \/ PrintLine
    \/ \E f \in {"zh", "en", "src"} : OpenRead(f)
    \/ \E f \in {"zh", "en", "src"} : ReadFile(f)
    \/ CloseParseZh
    \/ CloseParseEn
    \/ CloseConvert
    \/ OpenWrite
    \/ WriteFile
    \/ CloseWrite
    \/ Fail
    \/ Rerun

Spec == Init /\ [][Next]_vars

SpecParse == InitParse /\ [][Next]_vars

----------------------------------------------------------------------------
(* Vocabulary of the properties.                                           *)

Range(s) == {s[i] : i \in 1..Len(s)}

Contains(s, p) == \E i \in 1..(Len(s) + 1) : HasAt(s, i, p)

CountOcc(s, p) == Cardinality({i \in 1..Len(s) : HasAt(s, i, p)})

\* new_content of the current run has been computed.
ConvertedNow ==
    \/ pc \in {"open_dst", "write_dst", "close_dst", "converted", "print_done",
              "done"}
    \/ failedAt \in {"open_dst", "write_dst", "close_dst", "converted",
                    "print_done"}

\* chinese_translations of the current run has been returned to main.
ZhParsed ==
    /\ pc \notin {"main", "open_zh", "read_zh", "close_zh"}
    /\ failedAt \notin {"main", "open_zh", "read_zh"}

\* A macro call occurrence: the key and the default text are non-empty and
\* hold no quote, and only whitespace follows the comma.
IsMacroCall(g) ==
    /\ g.kind = "call"
    /\ g.key # <<>> /\ Q \notin Range(g.key)
    /\ g.text # <<>> /\ Q \notin Range(g.text)
    /\ Range(g.ws) \subseteq Whitespace

InCatalog(d, k) == \E i \in 1..Len(d) : d[i].key = k

ValueOr(d, k, default) ==
    IF InCatalog(d, k) THEN d[CHOOSE i \in 1..Len(d) : d[i].key = k].val ELSE default

ThreeArgCall(k, z, e) ==
    <<"B", "P", "_", "L", "O", "C", "T", "E", "X", "T", "(", Q>> \o k
        \o <<Q, ",", " ", Q>> \o z \o <<Q, ",", " ", Q>> \o e \o <<Q, ")">>

\* What the claim C1 expects in place of one piece of the target.
ExpectedSeg(g) ==
    IF IsMacroCall(g)
    THEN ThreeArgCall(g.key, ValueOr(chinese, g.key, g.text),
                      ValueOr(english, g.key, g.text))
    ELSE ReadText(RenderSeg(g))

ExpectedContent == Concat([i \in 1..Len(segs) |-> ExpectedSeg(segs[i])])

\* C1: every macro call occurrence LOCTEXT("K","D") of the target is
\* replaced by BP_LOCTEXT("K", "Z", "E"), Z the Chinese catalog's value for
\* K or D, E the English catalog's value for K or D, each falling back on
\* its own, in the order key, Chinese, English; all other text stays.
C1_RewriteWithFallback ==
    (runs = 1 /\ ConvertedNow) => newContent = ExpectedContent

\* C1 witness: a finished run rewrote a call whose key only the Chinese
\* catalog knows, so the two lookups took different branches.
C1_Witness ==
    /\ runs = 1 /\ pc = "done"
    /\ \E p \in 1..Len(segs) :
          /\ IsMacroCall(segs[p])
          /\ InCatalog(chinese, segs[p].key)
          /\ ~InCatalog(english, segs[p].key)

WellFormedCatalog(recs) ==
    \A i \in 1..Len(recs) :
        /\ recs[i].kind = "pair"
        /\ Q \notin Range(recs[i].id) \cup Range(recs[i].str)

LastRecWithId(recs, id) ==
    CHOOSE i \in 1..Len(recs) :
        /\ recs[i].id = id
        /\ \A j \in (i + 1)..Len(recs) : recs[j].id # id

\* C2: for a well-formed catalog, every record with a non-empty key is in
\* the mapping exactly once, with the value of the last record of that key.
C2_LastWriteWins ==
    (ZhParsed /\ WellFormedCatalog(zhRecs)) =>
        \A i \in 1..Len(zhRecs) :
            zhRecs[i].id # <<>> =>
                /\ Cardinality({j \in 1..Len(chinese) :
                                   chinese[j].key = zhRecs[i].id}) = 1
                /\ ValueOr(chinese, zhRecs[i].id, <<>>)
                       = zhRecs[LastRecWithId(zhRecs, zhRecs[i].id)].str

\* C2 witness: a well-formed catalog with one key in two records of
\* different values has been parsed.
C2_Witness ==
    /\ ZhParsed /\ WellFormedCatalog(zhRecs)
    /\ \E i, j \in 1..Len(zhRecs) :
          /\ i < j
          /\ zhRecs[i].id = zhRecs[j].id /\ zhRecs[i].id # <<>>
          /\ zhRecs[i].str # zhRecs[j].str

RECURSIVE LitScan(_, _)
LitScan(s, j) ==
    IF j > Len(s) THEN 0
    ELSE IF s[j] = BS THEN LitScan(s, j + 2)
         ELSE IF s[j] = Q THEN j
              ELSE LitScan(s, j + 1)

\* The index of the quote closing the string literal that opens at i, and
\* 0 when s holds no literal there.
LitEnd(s, i) == IF HasAt(s, i, <<Q>>) THEN LitScan(s, i + 1) ELSE 0

\* t reads as  BP_LOCTEXT("..", "..", "..")  with three string literals.
ThreeLiterals(t) ==
    LET a == Len(BpLoctextOpen)
        e1 == LitEnd(t, a)
        e2 == LitEnd(t, e1 + 3)
        e3 == LitEnd(t, e2 + 3)
    IN  /\ HasAt(t, 1, BpLoctextOpen)
        /\ e1 > 0 /\ HasAt(t, e1 + 1, <<",", " ">>)
        /\ e2 > 0 /\ HasAt(t, e2 + 1, <<",", " ">>)
        /\ e3 > 0 /\ HasAt(t, e3 + 1, <<")">>)
        /\ e3 + 1 = Len(t)

\* C3: every rewritten call the run emits parses as exactly three quoted
\* string literals.
C3_ThreeQuotedLiterals ==
    ConvertedNow =>
        LET ms == FindAllLoctext(content, 1)
        IN  \A k \in 1..Len(ms) :
                ThreeLiterals(ReplaceMatch(ms[k].g1, ms[k].g2, chinese, english))

RECURSIVE Backslashed(_)
Backslashed(s) ==
    IF s = <<>> THEN <<>>
    ELSE (IF Head(s) = Q THEN <<BS, Q>> ELSE <<Head(s)>>) \o Backslashed(Tail(s))

\* C4: a call whose default text holds a quote and whose key is in no
\* catalog is rewritten to BP_LOCTEXT, the default text in the second and
\* the third argument with its quote escaped (as it stands in the source,
\* or with a backslash put before the quote).
C4_QuotedDefaultRewritten ==
    (runs = 1 /\ ConvertedNow) =>
        \A p \in 1..Len(segs) :
            ( /\ segs[p].kind = "call"
              /\ Q \in Range(segs[p].text)
              /\ ~InCatalog(chinese, segs[p].key)
              /\ ~InCatalog(english, segs[p].key) ) =>
                \/ Contains(newContent,
                            ThreeArgCall(segs[p].key, segs[p].text, segs[p].text))
                \/ Contains(newContent,
                            ThreeArgCall(segs[p].key, Backslashed(segs[p].text),
                                         Backslashed(segs[p].text)))

NoOpRun(r) == FindAllLoctext(reads[r], 1) = <<>> /\ writes[r] = reads[r]

\* C5 as stated: every run after the first finds no match and writes back
\* what it read.
C5_SecondRunNoOp == \A r \in 2..Len(writes) : NoOpRun(r)

\* Every  LOCTEXT(  in the first run's output is the head of a call that
\* run emitted.
OnlyEmittedHeads ==
    CountOcc(writes[1], LoctextName) = Len(FindAllLoctext(reads[1], 1))

\* C5 amended: when  LOCTEXT(  occurs in the first run's output only as
\* the head of a call that run emitted, every later run finds no match and
\* writes back what it read.
C5_SecondRunNoOpWhenOnlyHeads ==
    (Len(writes) >= 2 /\ OnlyEmittedHeads) =>
        \A r \in 2..Len(writes) : NoOpRun(r)

\* C5 witness: a second run has finished on the output of a first run that
\* rewrote at least one call and left no other  LOCTEXT(  behind.
C5_Witness ==
    /\ Len(writes) >= 2
    /\ OnlyEmittedHeads
    /\ Len(FindAllLoctext(reads[1], 1)) >= 1

\* C6: the mapping holds no empty key, and every entry is the key and the
\* value of a complete msgid/msgstr pair: partial records contribute
\* nothing.
C6_NoEmptyKeyNoPartialRecord ==
    ZhParsed =>
        \A j \in 1..Len(chinese) :
            /\ chinese[j].key # <<>>
            /\ \E i \in 1..Len(zhRecs) :
                  /\ zhRecs[i].kind = "pair"
                  /\ zhRecs[i].id = chinese[j].key
                  /\ zhRecs[i].str = chinese[j].val

\* C6 witness: a catalog holding an empty-key pair and a partial record
\* has been parsed without an error.
C6_Witness ==
    /\ ZhParsed /\ failedAt = ""
    /\ \E i \in 1..Len(zhRecs) : zhRecs[i].kind = "pair" /\ zhRecs[i].id = <<>>
    /\ \E i \in 1..Len(zhRecs) : zhRecs[i].kind # "pair"

\* C7: an I/O failure ends the run at once and for good; after a failed
\* catalog read the target was never opened for writing and is unchanged;
\* "Done!" is printed only by a run that wrote the target and never by a
\* run that failed; the target is torn only inside the writing `with`
\* block and after a failure there.
C7_FailureAborts ==
    /\ failedAt # "" => (pc = "aborted" /\ ~Printed("Done!"))
    /\ pc = "aborted" => (failedAt # "" /\ ~ENABLED Next)
    /\ failedAt \in {"open_zh", "read_zh", "open_en", "read_en"} =>
          /\ ~openedW
          /\ ~torn
          /\ srcFile = srcAtStart
          /\ TargetMayHold(Utf8(srcAtStart))
          /\ ~Printed("Converting source file...")
    /\ Printed("Done!") =>
          /\ openedW
          /\ ~torn
          /\ Len(writes) = runs
          /\ \E sep \in LineSeps :
                /\ srcFile = WriteText(writes[runs], sep)
                /\ TargetMayHold(Utf8(WriteText(writes[runs], sep)))
    /\ torn => (openedW /\ (pc = "close_dst" \/ failedAt \in {"write_dst", "close_dst"}))

\* C7 witness: the read of the English catalog failed.
C7_Witness == failedAt = "read_en" /\ pc = "aborted"

\* The handle the run holds at each position.
HeldDuring(p) ==
    CASE p \in {"read_zh", "close_zh"} -> {"zh"}
      [] p \in {"read_en", "close_en"} -> {"en"}
      [] p \in {"read_src", "close_src"} -> {"src"}
      [] p \in {"write_dst", "close_dst"} -> {"dst"}
      [] OTHER -> {}

\* C8: at most one handle is open at any time, it is the one of the file
\* the run is at (catalogs, then the target for reading, then for
\* writing), and none is open once the run has ended either way.
C8_OneHandleAtATime ==
    /\ Cardinality(open) <= 1
    /\ open = HeldDuring(pc)
    /\ pc \in {"done", "aborted"} => open = {}

\* C8 witness: the run ended by a failed write, after all four opens; the
\* write was cut inside the two-byte character U+00A0.
C8_Witness ==
    /\ pc = "aborted" /\ failedAt = "write_dst" /\ open = {}
    /\ newContent # <<>> /\ newContent[1] = NBSP
    /\ TargetMayHold(<<194>>)

\* The current run has written the target and closed it.
WrittenNow ==
    \/ pc \in {"converted", "print_done", "done"}
    \/ failedAt \in {"converted", "print_done"}

\* The text t with each of its line endings (CR LF, CR or LF) replaced by
\* sep, from position lo to position hi.
RECURSIVE LineEndingsAs(_, _, _, _)
LineEndingsAs(t, lo, hi, sep) ==
    IF lo > hi THEN <<>>
    ELSE IF lo = hi
         THEN IF t[lo] = CR /\ lo < Len(t) /\ t[lo + 1] = LF THEN <<>>
              ELSE IF t[lo] \in {CR, LF} THEN sep ELSE <<t[lo]>>
         ELSE LET mid == (lo + hi) \div 2
              IN  LineEndingsAs(t, lo, mid, sep) \o LineEndingsAs(t, mid + 1, hi, sep)

WithLineEnding(t, sep) == LineEndingsAs(t, 1, Len(t), sep)

\* The pieces of the target that are macro calls.
MacroCalls == {p \in 1..Len(segs) : IsMacroCall(segs[p])}

\* One piece of the target as the claim C9 expects it in the file: a macro
\* call replaced, anything else as it stood in the file.
VerbatimSeg(g) ==
    IF IsMacroCall(g)
    THEN ThreeArgCall(g.key, ValueOr(chinese, g.key, g.text),
                      ValueOr(english, g.key, g.text))
    ELSE RenderSeg(g)

ExpectedFile == Concat([i \in 1..Len(segs) |-> VerbatimSeg(segs[i])])

\* C9 as stated: the target file after the run is the file before the run
\* with each matched call replaced by one BP_LOCTEXT call and every other
\* character as it was, in order; a file without a match is written back
\* as it was; the catalog files stay as they were.
C9_OnlyMatchesChange ==
    /\ zhFile = RenderPo(zhRecs)
    /\ enFile = RenderPo(enRecs)
    /\ (runs = 1 /\ WrittenNow) =>
          /\ srcFile = ExpectedFile
          /\ CountOcc(srcFile, <<"B", "P", "_">> \o LoctextName)
                >= Cardinality(MacroCalls)
          /\ (MacroCalls = {} => srcFile = srcAtStart)

\* C9 amended: the target file after the run is the file before the run
\* with each matched call replaced by one BP_LOCTEXT call, every line
\* ending (CR LF, CR or LF) written as the line separator of the platform,
\* and every other character as it was, in order; a file without a match
\* is written back with nothing but its line endings changed; the catalog
\* files stay as they were.
C9_OnlyMatchesAndLineEndingsChange ==
    /\ zhFile = RenderPo(zhRecs)
    /\ enFile = RenderPo(enRecs)
    /\ (runs = 1 /\ WrittenNow) =>
          \E sep \in LineSeps :
              /\ srcFile = WithLineEnding(ExpectedFile, sep)
              /\ CountOcc(srcFile, <<"B", "P", "_">> \o LoctextName)
                    >= Cardinality(MacroCalls)
              /\ (MacroCalls = {} => srcFile = WithLineEnding(srcAtStart, sep))
    /\ (WrittenNow /\ FindAllLoctext(WithLineEnding(srcAtStart, <<LF>>), 1) = <<>>) =>
          \E sep \in LineSeps : srcFile = WithLineEnding(srcAtStart, sep)

\* C9 witness: a finished run rewrote a call of a file that had a line
\* ending outside the call, and wrote that line ending differently.
C9_Witness ==
    /\ runs = 1 /\ pc = "done"
    /\ MacroCalls # {}
    /\ \E p \in 1..Len(segs) : segs[p].kind = "text" /\ CR \in Range(segs[p].text)
    /\ srcFile # ExpectedFile

IdentChars ==
    {"A", "B", "C", "D", "E", "F", "G", "H", "I", "J", "K", "L", "M", "N", "O",
     "P", "Q", "R", "S", "T", "U", "V", "W", "X", "Y", "Z", "_",
     "a", "b", "c", "d", "e", "f", "g", "h", "i", "j", "k", "l", "m", "n", "o",
     "p", "q", "r", "s", "t", "u", "v", "w", "x", "y", "z",
     "0", "1", "2", "3", "4", "5", "6", "7", "8", "9"}

\* C10: every rewritten call is an invocation of the macro named exactly
\* LOCTEXT: no identifier character stands right before the match.
C10_OnlyExactMacroName ==
    ConvertedNow =>
        LET ms == FindAllLoctext(content, 1)
        IN  \A k \in 1..Len(ms) :
                ms[k].start = 1 \/ content[ms[k].start - 1] \notin IdentChars

====
